---- MODULE Spec2Model ----
(***************************************************************************)
(* Layer export of a PSD document: the surface materializer                *)
(* (imageDataToCanvas), the trim engine (trimCanvas) and the export        *)
(* orchestrator (exportAssets) of the application, with the user actions   *)
(* that feed them (loadPsd, toggleSelect, reset, the naming settings).     *)
(*                                                                         *)
(* Strings are sequences of one-character strings, so that the naming      *)
(* transform and the archive paths are computed character by character.    *)
(* A pixel buffer is a sparse byte array: a function from byte index to    *)
(* byte whose domain holds the bytes that were written; every other byte   *)
(* of the buffer is 0.                                                     *)
(***************************************************************************)
EXTENDS Integers, Sequences, FiniteSets, TLC

\* ------------------------------------------------------------------------
\* Bounds of the model
\* ------------------------------------------------------------------------
MaxDim == 3
MaxPainted == 2
MaxFaults == 1

MaxNameLen == 4

\* ------------------------------------------------------------------------
\* Absent values
\* ------------------------------------------------------------------------
Null == [null |-> TRUE]

\* ------------------------------------------------------------------------
\* transformName (src/App.tsx:51-57)
\* ------------------------------------------------------------------------
NamingStyles == {"original", "snake_case", "kebab-case", "PascalCase"}

UpperCase == << "A", "B", "C", "D", "E", "F", "G", "H", "I", "J", "K", "L", "M",
                "N", "O", "P", "Q", "R", "S", "T", "U", "V", "W", "X", "Y", "Z" >>

LowerCase == << "a", "b", "c", "d", "e", "f", "g", "h", "i", "j", "k", "l", "m",
                "n", "o", "p", "q", "r", "s", "t", "u", "v", "w", "x", "y", "z" >>

Digits == {"0", "1", "2", "3", "4", "5", "6", "7", "8", "9"}

\* the character class [/\\?%*:|"<>]
UnsafeChars == {"/", "\\", "?", "%", "*", ":", "|", "\"", "<", ">"}

\* the character class \s (the names of the model use the blank and the tab)
IsSpace(c) == c \in {" ", "\t"}

\* the character class \w
IsWord(c) ==
    \/ \E i \in 1..26 : c = UpperCase[i] \/ c = LowerCase[i]
    \/ c \in Digits
    \/ c = "_"

toLowerCase(c) ==
    IF \E i \in 1..26 : c = UpperCase[i]
    THEN LowerCase[CHOOSE i \in 1..26 : c = UpperCase[i]]
    ELSE c

toUpperCase(c) ==
    IF \E i \in 1..26 : c = LowerCase[i]
    THEN UpperCase[CHOOSE i \in 1..26 : c = LowerCase[i]]
    ELSE c

\* name.replace(/[/\\?%*:|"<>]/g, '_')
ReplaceUnsafe(s) == [i \in 1..Len(s) |-> IF s[i] \in UnsafeChars THEN "_" ELSE s[i]]

\* String.prototype.trim
RECURSIVE TrimStart(_)
TrimStart(s) ==
    IF s # <<>> /\ IsSpace(Head(s)) THEN TrimStart(Tail(s)) ELSE s

RECURSIVE TrimEnd(_)
TrimEnd(s) ==
    IF s # <<>> /\ IsSpace(s[Len(s)]) THEN TrimEnd(SubSeq(s, 1, Len(s) - 1)) ELSE s

Trim(s) == TrimEnd(TrimStart(s))

\* s.replace(/\s+/g, r): every maximal run of whitespace becomes r
RECURSIVE ReplaceSpaceRuns(_, _)
ReplaceSpaceRuns(s, r) ==
    IF s = <<>> THEN <<>>
    ELSE IF IsSpace(Head(s))
         THEN r \o ReplaceSpaceRuns(TrimStart(s), r)
         ELSE <<Head(s)>> \o ReplaceSpaceRuns(Tail(s), r)

\* s.replace(/(\w)(\w*)/g, (g, g1, g2) => g1.toUpperCase() + g2.toLowerCase())
CapitalizeWords(s) ==
    [i \in 1..Len(s) |->
        IF IsWord(s[i])
        THEN IF i = 1 \/ ~IsWord(s[i - 1]) THEN toUpperCase(s[i]) ELSE toLowerCase(s[i])
        ELSE s[i]]

LowerAll(s) == [i \in 1..Len(s) |-> toLowerCase(s[i])]

\* a transform that applies the case style to the raw name and sanitizes after
transformNameStyleFirst(name, style) ==
    Trim(ReplaceUnsafe(
        IF style = "snake_case" THEN ReplaceSpaceRuns(LowerAll(name), <<"_">>)
        ELSE IF style = "kebab-case" THEN ReplaceSpaceRuns(LowerAll(name), <<"-">>)
        ELSE IF style = "PascalCase" THEN ReplaceSpaceRuns(CapitalizeWords(name), <<>>)
        ELSE name))

transformName(name, style) ==
    LET base == Trim(ReplaceUnsafe(name)) IN
    IF style = "snake_case" THEN ReplaceSpaceRuns(LowerAll(base), <<"_">>)
    ELSE IF style = "kebab-case" THEN ReplaceSpaceRuns(LowerAll(base), <<"-">>)
    ELSE IF style = "PascalCase" THEN ReplaceSpaceRuns(CapitalizeWords(base), <<>>)
    ELSE base

\* ------------------------------------------------------------------------
\* Surfaces and raw layers (src/services/psdProcessor.ts)
\* ------------------------------------------------------------------------
PIXEL_LIMIT == 48000000

TRIM_LIMIT == 16000000

\* data[i] of a Uint8ClampedArray
Byte(data, i) == IF i \in DOMAIN data THEN data[i] ELSE 0

\* an HTMLCanvasElement with its pixel content
Canvas(w, h, data) == [kind |-> "canvas", width |-> w, height |-> h, data |-> data]

\* document.createElement('canvas') with width and height set: a blank surface
BlankCanvas(w, h) == Canvas(w, h, <<>>)

\* a layer record of the decoder
\* (canvas: a surface or Null; canvasData: [bytes |-> pixel buffer] or Null)
RawLayer(canvas, canvasData, w, h) ==
    [kind |-> "layer", canvas |-> canvas, canvasData |-> canvasData, width |-> w, height |-> h]

\* What the platform does on the calls that can fail: getContext returns null
\* (FALSE), ImageData/putImageData, getImageData and drawImage throw.
NominalEnv ==
    [matCtx |-> TRUE, imageData |-> "ok", trimCtx |-> TRUE,
     getImageData |-> "ok", cropCtx |-> TRUE, drawImage |-> "ok"]

AllEnvs ==
    [matCtx : BOOLEAN, imageData : {"ok", "RangeError", "OutOfMemory", "OtherError"},
     trimCtx : BOOLEAN, getImageData : {"ok", "throw"},
     cropCtx : BOOLEAN, drawImage : {"ok", "throw"}]

FaultCount(e) ==
    Cardinality({f \in DOMAIN NominalEnv : e[f] # NominalEnv[f]})

Envs == {e \in AllEnvs : FaultCount(e) <= MaxFaults}

\* a materializer without the guard
exceedsPixelLimitNever(layer) == FALSE

\* if (layer.width * layer.height > PIXEL_LIMIT)
exceedsPixelLimit(layer) == layer.width * layer.height > PIXEL_LIMIT

\* a bypass that starts at the ceiling itself
exceedsTrimLimitInclusive(canvas) == canvas.width * canvas.height >= TRIM_LIMIT

\* if (canvas.width * canvas.height > TRIM_LIMIT)
exceedsTrimLimit(canvas) == canvas.width * canvas.height > TRIM_LIMIT

\* a handler that reports every error the same way
catchSynthesisOneSignal(e) ==
    [canvas |-> Null, allocs |-> 1, log |-> "unknown error", threw |-> FALSE]

\* catch (e) of imageDataToCanvas, for the error e of new ImageData or
\* putImageData: a RangeError or an 'Out of memory' Error is warned about as
\* memory exhausted, any other error is logged as unknown; null is returned
catchSynthesis(e) ==
    [canvas |-> Null, allocs |-> 1,
     log |-> IF e \in {"RangeError", "OutOfMemory"}
             THEN "memory exhausted" ELSE "unknown error",
     threw |-> FALSE]

\* imageDataToCanvas: canvas is the returned surface (Null for null), allocs the
\* number of surfaces allocated, log the message written to the console, threw
\* whether an exception left the function
imageDataToCanvas(layer, env) ==
    IF layer.canvas # Null
    THEN [canvas |-> layer.canvas, allocs |-> 0, log |-> "none", threw |-> FALSE]
    ELSE IF layer.canvasData = Null \/ layer.width = 0 \/ layer.height = 0
    THEN [canvas |-> Null, allocs |-> 0, log |-> "none", threw |-> FALSE]
    ELSE IF exceedsPixelLimit(layer)
    THEN [canvas |-> Null, allocs |-> 0, log |-> "refused", threw |-> FALSE]
    ELSE IF ~env.matCtx
    THEN [canvas |-> Null, allocs |-> 1, log |-> "none", threw |-> FALSE]
    ELSE IF env.imageData = "ok"
    THEN [canvas |-> Canvas(layer.width, layer.height, layer.canvasData.bytes),
          allocs |-> 1, log |-> "none", threw |-> FALSE]
    ELSE catchSynthesis(env.imageData)

\* the scan loop of trimCanvas over the pixels in raster order; a pixel none of
\* whose bytes was written has alpha 0 and leaves the box as it is
ScanInit(width, height) ==
    [minX |-> width, minY |-> height, maxX |-> 0, maxY |-> 0, hasAlpha |-> FALSE]

\* a scan that takes every written pixel for a visible one
ScanPixelAnyAlpha(box, data, width, x, y) ==
    [hasAlpha |-> TRUE,
     minX |-> IF x < box.minX THEN x ELSE box.minX,
     maxX |-> IF x > box.maxX THEN x ELSE box.maxX,
     minY |-> IF y < box.minY THEN y ELSE box.minY,
     maxY |-> IF y > box.maxY THEN y ELSE box.maxY]

\* the body of the two for loops of trimCanvas, for the pixel (x, y)
ScanPixel(box, data, width, x, y) ==
    LET alpha == Byte(data, (y * width + x) * 4 + 3) IN
    IF alpha > 0
    THEN [hasAlpha |-> TRUE,
          minX |-> IF x < box.minX THEN x ELSE box.minX,
          maxX |-> IF x > box.maxX THEN x ELSE box.maxX,
          minY |-> IF y < box.minY THEN y ELSE box.minY,
          maxY |-> IF y > box.maxY THEN y ELSE box.maxY]
    ELSE box

RECURSIVE ScanLoop(_, _, _, _)
ScanLoop(box, data, width, todo) ==
    IF todo = {} THEN box
    ELSE LET p == CHOOSE q \in todo : \A r \in todo : q <= r
         IN ScanLoop(ScanPixel(box, data, width, p % width, p \div width),
                     data, width, todo \ {p})

Scan(data, width, height) ==
    ScanLoop(ScanInit(width, height), data, width,
             {i \div 4 : i \in DOMAIN data} \cap (0..(width * height - 1)))

\* a copy that starts at the origin of the source, not at the box
drawImageFromOrigin(src, sx, sy, sw, sh) ==
    LET inside == {i \in DOMAIN src.data :
                      /\ ((i \div 4) % src.width) \in 0..(sw - 1)
                      /\ ((i \div 4) \div src.width) \in 0..(sh - 1)}
        dest(i) == (((i \div 4) \div src.width) * sw + ((i \div 4) % src.width)) * 4
                      + (i % 4)
    IN [d \in {dest(i) : i \in inside} |->
            src.data[CHOOSE i \in inside : dest(i) = d]]

\* croppedCtx.drawImage(canvas, sx, sy, sw, sh, 0, 0, sw, sh) on a blank surface
\* of sw by sh: the pixel data of the destination
drawImage(src, sx, sy, sw, sh) ==
    LET inside == {i \in DOMAIN src.data :
                      /\ ((i \div 4) % src.width) \in sx..(sx + sw - 1)
                      /\ ((i \div 4) \div src.width) \in sy..(sy + sh - 1)}
        dest(i) == ((((i \div 4) \div src.width) - sy) * sw
                      + (((i \div 4) % src.width) - sx)) * 4 + (i % 4)
    IN [d \in {dest(i) : i \in inside} |->
            src.data[CHOOSE i \in inside : dest(i) = d]]

\* a trim that copies also when there is nothing to cut
isFullExtentNever(croppedWidth, croppedHeight, width, height) == FALSE

\* if (croppedWidth === width && croppedHeight === height)
isFullExtent(croppedWidth, croppedHeight, width, height) ==
    croppedWidth = width /\ croppedHeight = height

\* a result whose fields name the other axis
TrimResultSwapped(canvas, w, h) == [canvas |-> canvas, width |-> h, height |-> w]

\* { canvas, width, height }
TrimResult(canvas, w, h) == [canvas |-> canvas, width |-> w, height |-> h]

\* the part of trimCanvas after the size bypass, on a surface with a context
TrimScan(canvas, env) ==
    IF env.getImageData # "ok"
    THEN [result |-> TrimResult(canvas, canvas.width, canvas.height),
          scanned |-> FALSE, allocs |-> 0, path |-> "fallback"]
    ELSE
    LET width == canvas.width
        height == canvas.height
        box == Scan(canvas.data, width, height)
        croppedWidth == box.maxX - box.minX + 1
        croppedHeight == box.maxY - box.minY + 1
    IN  IF ~box.hasAlpha
        THEN [result |-> Null, scanned |-> TRUE, allocs |-> 0, path |-> "empty"]
        ELSE IF isFullExtent(croppedWidth, croppedHeight, width, height)
        THEN [result |-> TrimResult(canvas, width, height),
              scanned |-> TRUE, allocs |-> 0, path |-> "full"]
        ELSE IF ~env.cropCtx
        THEN [result |-> TrimResult(BlankCanvas(croppedWidth, croppedHeight),
                                    croppedWidth, croppedHeight),
              scanned |-> TRUE, allocs |-> 1, path |-> "cropped"]
        ELSE IF env.drawImage # "ok"
        THEN [result |-> TrimResult(canvas, canvas.width, canvas.height),
              scanned |-> TRUE, allocs |-> 1, path |-> "fallback"]
        ELSE [result |-> TrimResult(
                            Canvas(croppedWidth, croppedHeight,
                                   drawImage(canvas, box.minX, box.minY,
                                             croppedWidth, croppedHeight)),
                            croppedWidth, croppedHeight),
              scanned |-> TRUE, allocs |-> 1, path |-> "cropped"]

\* trimCanvas: result is the returned record (Null for null), scanned tells
\* whether the scan loop ran, allocs counts the surfaces allocated, path names
\* the return statement taken
trimCanvas(input, env) ==
    LET made == IF input.kind = "canvas"
                THEN [canvas |-> input, allocs |-> 0, log |-> "none", threw |-> FALSE]
                ELSE imageDataToCanvas(input, env)
        canvas == made.canvas
    IN  IF canvas = Null \/ canvas.width = 0 \/ canvas.height = 0
        THEN [result |-> Null, scanned |-> FALSE, allocs |-> made.allocs, path |-> "none"]
        ELSE IF exceedsTrimLimit(canvas)
        THEN [result |-> TrimResult(canvas, canvas.width, canvas.height),
              scanned |-> FALSE, allocs |-> made.allocs, path |-> "bypass"]
        ELSE IF ~env.trimCtx
        THEN [result |-> Null, scanned |-> FALSE, allocs |-> made.allocs, path |-> "none"]
        ELSE LET r == TrimScan(canvas, env)
             IN [r EXCEPT !.allocs = r.allocs + made.allocs]

\* ------------------------------------------------------------------------
\* Pixel buffers of the inputs
\* ------------------------------------------------------------------------
\* The buffer of a surface of width w whose pixels at the coordinates pts
\* (pairs <<x, y>>) were written with alpha a and a colour that tells the
\* pixels apart; every other pixel is transparent black.
Paint(w, pts, a) ==
    IF pts = {} THEN <<>> ELSE
    [i \in {(p[2] * w + p[1]) * 4 + c : p \in pts, c \in 0..3} |->
        CASE i % 4 = 0 -> (((i \div 4) % w) % 250) + 1
          [] i % 4 = 1 -> (((i \div 4) \div w) % 250) + 1
          [] i % 4 = 2 -> 9
          [] OTHER -> a]

\* pixel (x, y) of a surface, as its four bytes
Pixel(canvas, x, y) ==
    [c \in 0..3 |-> Byte(canvas.data, (y * canvas.width + x) * 4 + c)]

\* ------------------------------------------------------------------------
\* Documents the decoder can return (psd.children of readPsd)
\* ------------------------------------------------------------------------
PsdLeaf(name, visible, canvas, canvasData, w, h) ==
    [kind |-> "layer", name |-> name, visible |-> visible, hasChildren |-> FALSE,
     children |-> <<>>, canvas |-> canvas, canvasData |-> canvasData,
     width |-> w, height |-> h]

PsdGroup(name, visible, children) ==
    [kind |-> "layer", name |-> name, visible |-> visible, hasChildren |-> TRUE,
     children |-> children, canvas |-> Null, canvasData |-> Null,
     width |-> 0, height |-> 0]

\* a 2x2 layer whose only visible pixel is (1, 0)
PaintedLeaf(name, visible) ==
    PsdLeaf(name, visible, Canvas(2, 2, Paint(2, {<<1, 0>>}, 255)), Null, 2, 2)

\* a 1x1 opaque layer
OpaqueLeaf(name, visible) ==
    PsdLeaf(name, visible, Canvas(1, 1, Paint(1, {<<0, 0>>}, 255)), Null, 1, 1)

\* a 2x1 layer with colour but no alpha
ClearLeaf(name, visible) ==
    PsdLeaf(name, visible, Canvas(2, 1, Paint(2, {<<0, 0>>}, 0)), Null, 2, 1)

\* a 2x2 layer that carries its pixel buffer and no surface
BufferLeaf(name, visible) ==
    PsdLeaf(name, visible, Null, [bytes |-> Paint(2, {<<0, 1>>, <<1, 1>>}, 255)], 2, 2)

Name_GroupA == << "G", "r", "o", "u", "p", "A" >>
Name_leaf1 == << "l", "e", "a", "f", "1" >>
Name_leaf2 == << "l", "e", "a", "f", "2" >>
Name_leaf3 == << "l", "e", "a", "f", "3" >>
Name_Leaf1 == << "L", "e", "a", "f", "1" >>
Name_UI_Kit == << "U", "I", " ", "K", "i", "t" >>
Name_a_b == << "a", ":", "b" >>
Name_a_b2 == << "a", "/", "b" >>
Name_blank == << " ", " " >>
Name_padded == << " ", "b", "g", " ", " ", "T", "o", "p", " " >>

\* Root{ GroupA{ leaf1, leaf2 (hidden) }, leaf3 }
DocExample ==
    << PsdGroup(Name_GroupA, TRUE,
                << PaintedLeaf(Name_leaf1, TRUE), OpaqueLeaf(Name_leaf2, FALSE) >>),
       BufferLeaf(Name_leaf3, TRUE) >>

\* groups nested two deep, equal leaf names in different groups, names that
\* differ only in case
DocNested ==
    << PsdGroup(Name_UI_Kit, TRUE,
                << PsdGroup(Name_a_b, TRUE, << PaintedLeaf(Name_leaf1, TRUE) >>),
                   OpaqueLeaf(Name_leaf1, TRUE) >>),
       ClearLeaf(Name_Leaf1, TRUE) >>

\* five leaves at the top level, two of them with names equal after sanitizing
DocFlat ==
    << OpaqueLeaf(Name_a_b, TRUE), PaintedLeaf(Name_a_b2, TRUE),
       BufferLeaf(Name_leaf1, TRUE), OpaqueLeaf(Name_leaf2, TRUE),
       PaintedLeaf(Name_leaf3, TRUE) >>

\* an empty group, a group whose name is blank, a padded name
DocOdd ==
    << PsdGroup(Name_GroupA, FALSE, <<>>),
       PsdGroup(Name_blank, TRUE, << OpaqueLeaf(Name_padded, TRUE) >>) >>

Docs == {DocExample, DocNested, DocFlat, DocOdd}

\* ------------------------------------------------------------------------
\* State of the application (src/App.tsx)
\* ------------------------------------------------------------------------
VARIABLES
    layers,           \* the layer tree: a sequence of PsdLayer nodes
    layerMap,         \* layerMapRef.current: node id -> layer record of the decoder
    state,            \* ProcessingState: status, progress, message
    stats,            \* total, selected, groups
    namingStyle,
    useFolderPrefix,
    loadPc,           \* where the running loadPsd is suspended ("idle": none runs)
    loadFile,         \* the document of the file being loaded
    olderPc,          \* a loadPsd started before that one and still suspended
    olderFile,        \*   ("idle": none), and its document
    exPc,             \* where the running exportAssets stands ("idle": none runs)
    exLayers,         \* the layers the running exportAssets closed over
    exStack,          \* the processLevel activations: list, index, folder, prefixPath
    exStyle,          \* namingStyle and useFolderPrefix as the running export
    exPrefix,         \*   captured them
    exZip,            \* the files of the JSZip archive of the running export
    totalLayers,
    processedCount,
    exTrimmed,        \* the leaf whose trimmed surface is being encoded, and the
                      \*   archive name its blob will get
    published,        \* the processedCount values published by the export
    sinkCalls,        \* calls made on the archive: folder, file, generateAsync
    added,            \* the files the export added: leaf id and archive path
    visited,          \* the ids of the nodes the walk has visited, in order
    download,         \* the archive handed to the browser by link.click()
    alert,            \* the text of the alert the last handler raised
    outcome,          \* how the last exportAssets ended
    fnCall,           \* the pure function applied on its own ("none": not yet),
    fnArg,            \*   its argument,
    fnEnv,            \*   what the platform did during the call,
    fnRet,            \*   and what it returned
    fnFirst           \* when trimCanvas is applied to its own result: the first
                      \*   call (argument, platform, return value), else Null

appVars ==
    << layers, layerMap, state, stats, namingStyle, useFolderPrefix, loadPc, loadFile,
       olderPc, olderFile, exPc, exLayers, exStack, exStyle, exPrefix, exZip, totalLayers, processedCount, exTrimmed,
       published, sinkCalls, added, visited, download, alert, outcome >>

fnVars == << fnCall, fnArg, fnEnv, fnRet, fnFirst >>

vars == << appVars, fnVars >>

\* a progress value, kept as the fraction the code computes
Ratio(n, d) == [num |-> n, den |-> d]

Percent(n) == Ratio(n, 1)

\* a message: its fixed text and, for the per-layer message, the layer name
\* and the two counts
Message(text) == [text |-> text, name |-> <<>>, count |-> 0, of |-> 0]

ProcessingState(status, progress, message) ==
    [status |-> status, progress |-> progress, message |-> message]

MsgEngineReady == Message("engine ready")
MsgPreparing == Message("preparing to read")
MsgReading == Message("reading local file")
MsgParsing == Message("parsing PSD structure")
MsgBuilding == Message("building layer tree")
MsgLoaded == Message("loaded")
MsgEngineIsReady == Message("engine is ready")
MsgParseFailed == Message("parse failed")
MsgExportInit == Message("initialising export")
MsgNothingSelected == Message("no export item selected")
MsgPacking == Message("packing ZIP")
MsgExportDone == Message("export finished")
MsgExportInterrupted == Message("export interrupted")
MsgSlicing(name, n, of) == [text |-> "slicing", name |-> name, count |-> n, of |-> of]

\* ------------------------------------------------------------------------
\* The layer tree
\* ------------------------------------------------------------------------
\* ids of the nodes made by one load start at IdBase of its generation
IdBase(gen) == gen * 100

\* loadPsd.transformLayers: the nodes, with the entries put in layerMap;
\* next is the next unused id (Math.random ids are modelled as fresh ids)
RECURSIVE transformLayers(_, _)
transformLayers(psdLayers, next) ==
    IF psdLayers = <<>> THEN [nodes |-> <<>>, map |-> <<>>, next |-> next]
    ELSE LET l == Head(psdLayers)
             id == next
             kids == IF l.hasChildren
                     THEN transformLayers(l.children, next + 1)
                     ELSE [nodes |-> <<>>, map |-> <<>>, next |-> next + 1]
             rest == transformLayers(Tail(psdLayers), kids.next)
             node == [id |-> id,
                      name |-> l.name,
                      type |-> IF l.hasChildren THEN "group" ELSE "layer",
                      visible |-> l.visible,
                      isSelected |-> l.visible /\ ~l.hasChildren,
                      width |-> l.width,
                      height |-> l.height,
                      hasChildren |-> l.hasChildren,
                      children |-> kids.nodes]
             ids == {id} \cup DOMAIN kids.map \cup DOMAIN rest.map
         IN [nodes |-> <<node>> \o rest.nodes,
             map |-> [k \in ids |-> IF k = id THEN l
                                    ELSE IF k \in DOMAIN kids.map THEN kids.map[k]
                                    ELSE rest.map[k]],
             next |-> rest.next]

\* the nodes of a tree, in document order
RECURSIVE Nodes(_)
Nodes(list) ==
    IF list = <<>> THEN <<>>
    ELSE <<Head(list)>> \o Nodes(Head(list).children) \o Nodes(Tail(list))

NodeSet(list) == {Nodes(list)[i] : i \in 1..Len(Nodes(list))}

\* a count that does not descend into the groups
countStatsTopLevel(list) ==
    [total |-> Cardinality({n \in NodeSet(list) : n.type # "group"}),
     selected |-> Cardinality({i \in 1..Len(list) :
                                 list[i].isSelected /\ list[i].type = "layer"}),
     groups |-> Cardinality({n \in NodeSet(list) : n.type = "group"})]

\* a count of every selected node, whatever its type
countStatsAnySelected(list) ==
    [total |-> Cardinality({n \in NodeSet(list) : n.type # "group"}),
     selected |-> Cardinality({n \in NodeSet(list) : n.isSelected}),
     groups |-> Cardinality({n \in NodeSet(list) : n.type = "group"})]

\* the statistics effect: count(layers)
countStats(list) ==
    [total |-> Cardinality({n \in NodeSet(list) : n.type # "group"}),
     selected |-> Cardinality({n \in NodeSet(list) : n.isSelected /\ n.type = "layer"}),
     groups |-> Cardinality({n \in NodeSet(list) : n.type = "group"})]

\* a u that stops at the children of the toggled node
setAllShallow(list, n) ==
    IF list = <<>> THEN <<>> ELSE
    [i \in 1..Len(list) |-> [list[i] EXCEPT !.isSelected = n]]

\* toggleSelect: u, which gives every node below the toggled one the flag n
RECURSIVE setAll(_, _)
setAll(list, n) ==
    IF list = <<>> THEN <<>> ELSE
    [i \in 1..Len(list) |->
        [list[i] EXCEPT !.isSelected = n, !.children = setAll(list[i].children, n)]]

\* an update whose u maps (c || []): the toggled node gets a children list
\* whatever its type
RECURSIVE updateWithList(_, _)
updateWithList(list, id) ==
    IF list = <<>> THEN <<>> ELSE
    [i \in 1..Len(list) |->
        IF list[i].id = id
        THEN [list[i] EXCEPT !.isSelected = ~list[i].isSelected,
                             !.hasChildren = TRUE,
                             !.children = setAll(list[i].children, ~list[i].isSelected)]
        ELSE IF list[i].hasChildren
        THEN [list[i] EXCEPT !.children = updateWithList(list[i].children, id)]
        ELSE list[i]]

\* toggleSelect: update
RECURSIVE update(_, _)
update(list, id) ==
    IF list = <<>> THEN <<>> ELSE
    [i \in 1..Len(list) |->
        IF list[i].id = id
        THEN [list[i] EXCEPT !.isSelected = ~list[i].isSelected,
                             !.children = setAll(list[i].children, ~list[i].isSelected)]
        ELSE IF list[i].hasChildren
        THEN [list[i] EXCEPT !.children = update(list[i].children, id)]
        ELSE list[i]]

\* ------------------------------------------------------------------------
\* The archive (JSZip, as exportAssets uses it)
\* ------------------------------------------------------------------------
Slash == << "/" >>

DotPng == << ".", "p", "n", "g" >>

\* new JSZip(): no entry
EmptyZip == <<>>

PutEntry(files, name, entry) ==
    [k \in DOMAIN files \cup {name} |-> IF k = name THEN entry ELSE files[k]]

\* zipInstance.folder(arg) on the instance whose root is root: the entries and
\* the root of the returned instance
zipFolder(files, root, arg) ==
    IF arg = <<>>
    THEN [files |-> files, root |-> root]
    ELSE LET name == root \o arg \o Slash
         IN [files |-> IF name \in DOMAIN files THEN files
                       ELSE PutEntry(files, name, [dir |-> TRUE, data |-> Null]),
             root |-> name]

\* zipInstance.file(name, data) on the instance whose root is root
zipFile(files, root, name, data) ==
    PutEntry(files, root \o name, [dir |-> FALSE, data |-> data])

\* the PNG blob of the trimmed surface of a leaf
PngBlob(id) == [leaf |-> id]

FilesOf(files) == {k \in DOMAIN files : ~files[k].dir}

FoldersOf(files) == {k \in DOMAIN files : files[k].dir}

\* ------------------------------------------------------------------------
\* Initial state: the component as first rendered
\* ------------------------------------------------------------------------
NoCalls == [folder |-> 0, file |-> 0, generateAsync |-> 0]

AppInit ==
    /\ layers = <<>>
    /\ layerMap = <<>>
    /\ state = ProcessingState("idle", Percent(0), MsgEngineReady)
    /\ stats = [total |-> 0, selected |-> 0, groups |-> 0]
    /\ namingStyle = "snake_case"
    /\ useFolderPrefix = TRUE
    /\ loadPc = "idle"
    /\ loadFile = <<>>
    /\ olderPc = "idle"
    /\ olderFile = <<>>
    /\ exPc = "idle"
    /\ exLayers = <<>>
    /\ exStack = <<>>
    /\ exStyle = "snake_case"
    /\ exPrefix = TRUE
    /\ exZip = EmptyZip
    /\ totalLayers = 0
    /\ processedCount = 0
    /\ exTrimmed = Null
    /\ published = <<>>
    /\ sinkCalls = NoCalls
    /\ added = <<>>
    /\ visited = <<>>
    /\ download = Null
    /\ alert = "none"
    /\ outcome = "none"

FnIdle ==
    /\ fnCall = "none"
    /\ fnArg = Null
    /\ fnEnv = NominalEnv
    /\ fnRet = Null
    /\ fnFirst = Null

Init == AppInit /\ FnIdle

\* ------------------------------------------------------------------------
\* What the user can reach
\* ------------------------------------------------------------------------
\* exportAssets is running between two of its suspension points: no other
\* handler, timer or callback runs until it suspends or returns
Running == exPc \in {"loop", "toBlob"}

\* the full-screen overlay rendered above the page while parsing or exporting:
\* it takes every pointer event, so only controls that the keyboard operates
\* (the buttons and the select) can be used under it
OverlayShown == state.status \in {"parsing", "exporting"}

\* the upload area with the file input is rendered for an empty tree
FileInputRendered == layers = <<>>

\* the tree, the settings and the reset button are rendered for a non-empty tree
WorkspaceRendered == layers # <<>>

\* the export button: rendered for a non-empty tree, disabled while exporting
ExportButtonEnabled == layers # <<>> /\ state.status # "exporting"

exportVars ==
    << exPc, exLayers, exStack, exStyle, exPrefix, exZip, totalLayers, processedCount,
       exTrimmed, published, sinkCalls, added, visited, download, outcome >>

\* The locals of an exportAssets that has returned, and what was observed of
\* it, are kept until the user's next action and dropped by it; those of an
\* export that is still running are left alone.
ExportForgotten ==
    /\ exPc' = "idle"
    /\ exLayers' = <<>>
    /\ exStack' = <<>>
    /\ exStyle' = "snake_case"
    /\ exPrefix' = TRUE
    /\ exZip' = EmptyZip
    /\ totalLayers' = 0
    /\ processedCount' = 0
    /\ exTrimmed' = Null
    /\ published' = <<>>
    /\ sinkCalls' = NoCalls
    /\ added' = <<>>
    /\ visited' = <<>>
    /\ download' = Null
    /\ outcome' = "none"

UserActs ==
    /\ IF exPc = "idle" THEN ExportForgotten ELSE UNCHANGED exportVars
    /\ alert' = "none"

\* ------------------------------------------------------------------------
\* reset, toggleSelect and the settings
\* ------------------------------------------------------------------------
\* the body of reset (also the first statement of loadPsd)
ResetBody ==
    /\ layerMap' = <<>>
    /\ layers' = <<>>
    /\ stats' = countStats(<<>>)

\* reset can be invoked at any time the workspace is rendered, also while an
\* export or a load is suspended. exportAssets reads the tree and the two
\* settings once, at the click (exLayers, exStyle, exPrefix): a selection or
\* setting changed while an export runs is not seen by it, and the model takes
\* these changes, and the choice of a new file, between exports.
Reset ==
    /\ WorkspaceRendered
    /\ ~Running
    /\ ResetBody
    /\ state' = ProcessingState("idle", Percent(0), MsgEngineReady)
    /\ UserActs
    /\ UNCHANGED << namingStyle, useFolderPrefix, loadPc, olderPc, olderFile, loadFile, fnVars >>

ToggleSelect ==
    /\ WorkspaceRendered
    /\ ~OverlayShown
    /\ exPc = "idle"
    /\ \E n \in NodeSet(layers) :
          /\ layers' = update(layers, n.id)
          /\ stats' = countStats(update(layers, n.id))
    /\ UserActs
    /\ UNCHANGED << layerMap, state, namingStyle, useFolderPrefix, loadPc, olderPc, olderFile, loadFile,
                    fnVars >>

SetNamingStyle ==
    /\ WorkspaceRendered
    /\ exPc = "idle"
    /\ \E style \in NamingStyles \ {namingStyle} : namingStyle' = style
    /\ UserActs
    /\ UNCHANGED << layers, layerMap, state, stats, useFolderPrefix, loadPc, olderPc, olderFile, loadFile,
                    fnVars >>

SetUseFolderPrefix ==
    /\ WorkspaceRendered
    /\ exPc = "idle"
    /\ useFolderPrefix' = ~useFolderPrefix
    /\ UserActs
    /\ UNCHANGED << layers, layerMap, state, stats, namingStyle, loadPc, olderPc, olderFile, loadFile,
                    fnVars >>

\* ------------------------------------------------------------------------
\* loadPsd
\* ------------------------------------------------------------------------
\* the generation of ids for a new tree: the first one none of whose ids is a
\* key of the table or the id of a node of a running export
FreshGen ==
    LET used == DOMAIN layerMap
                   \cup (IF exPc # "idle" THEN {n.id : n \in NodeSet(exLayers)} ELSE {})
    IN CHOOSE g \in 0..2 :
          /\ \A id \in used : id < IdBase(g) \/ id >= IdBase(g + 1)
          /\ \A h \in 0..(g - 1) : \E id \in used : id >= IdBase(h) /\ id < IdBase(h + 1)

\* the user picks a file: reset() and the first progress message, up to the
\* first timer
ChooseFile ==
    /\ FileInputRendered
    /\ ~OverlayShown
    /\ exPc = "idle"
    /\ loadPc = "idle"
    /\ \E doc \in Docs : loadFile' = doc
    /\ ResetBody
    /\ state' = ProcessingState("parsing", Percent(5), MsgPreparing)
    /\ loadPc' = "timer150"
    /\ UNCHANGED << olderPc, olderFile >>
    /\ UserActs
    /\ UNCHANGED << namingStyle, useFolderPrefix, fnVars >>

LoadTimer150 ==
    /\ loadPc = "timer150"
    /\ ~Running
    /\ state' = ProcessingState("parsing", Percent(20), MsgReading)
    /\ loadPc' = "arrayBuffer"
    /\ UNCHANGED << olderPc, olderFile >>
    /\ UNCHANGED << layers, layerMap, stats, namingStyle, useFolderPrefix, loadFile,
                    alert, exportVars, fnVars >>

LoadArrayBuffer ==
    /\ loadPc = "arrayBuffer"
    /\ ~Running
    /\ state' = ProcessingState("parsing", Percent(45), MsgParsing)
    /\ loadPc' = "timer100"
    /\ UNCHANGED << olderPc, olderFile >>
    /\ UNCHANGED << layers, layerMap, stats, namingStyle, useFolderPrefix, loadFile,
                    alert, exportVars, fnVars >>

LoadTimer100 ==
    /\ loadPc = "timer100"
    /\ ~Running
    /\ loadPc' = "readPsd"
    /\ UNCHANGED << olderPc, olderFile >>
    /\ UNCHANGED << layers, layerMap, state, stats, namingStyle, useFolderPrefix,
                    loadFile, alert, exportVars, fnVars >>

\* readPsd returned: the tree is built and shown, up to the last timer
LoadReadPsd ==
    /\ loadPc = "readPsd"
    /\ ~Running
    /\ LET made == transformLayers(loadFile, IdBase(FreshGen))
       IN /\ layerMap' = [k \in DOMAIN layerMap \cup DOMAIN made.map |->
                             IF k \in DOMAIN made.map THEN made.map[k] ELSE layerMap[k]]
          /\ layers' = made.nodes
          /\ stats' = countStats(made.nodes)
    /\ state' = ProcessingState("parsing", Percent(100), MsgLoaded)
    /\ loadPc' = "timer400"
    /\ UNCHANGED << olderPc, olderFile >>
    /\ UNCHANGED << namingStyle, useFolderPrefix, loadFile, alert, exportVars, fnVars >>

LoadTimer400 ==
    /\ loadPc = "timer400"
    /\ ~Running
    /\ state' = ProcessingState("ready", Percent(100), MsgEngineIsReady)
    /\ loadPc' = "idle"
    /\ UNCHANGED << olderPc, olderFile >>
    /\ UNCHANGED << layers, layerMap, stats, namingStyle, useFolderPrefix, loadFile,
                    alert, exportVars, fnVars >>

\* file.arrayBuffer() or readPsd failed: the catch block of loadPsd
LoadFails ==
    /\ loadPc \in {"arrayBuffer", "readPsd"}
    /\ ~Running
    /\ state' = ProcessingState("idle", Percent(0), MsgParseFailed)
    /\ alert' = "parse failed"
    /\ loadPc' = "idle"
    /\ UNCHANGED << olderPc, olderFile >>
    /\ UNCHANGED << layers, layerMap, stats, namingStyle, useFolderPrefix, loadFile,
                    exportVars, fnVars >>

\* ------------------------------------------------------------------------
\* Two loadPsd at once. The file input is rendered while the tree is empty, and
\* its onChange starts loadPsd whatever is suspended: when a reset or the last
\* timer of an earlier load has taken the status away from 'parsing', the
\* upload area can be clicked while a load is suspended. The load that was
\* running becomes the older one; its steps are those of loadPsd.
\* ------------------------------------------------------------------------
ChooseFileAgain ==
    /\ FileInputRendered
    /\ ~OverlayShown
    /\ exPc = "idle"
    /\ loadPc # "idle"
    /\ olderPc = "idle"
    /\ olderPc' = loadPc
    /\ olderFile' = loadFile
    /\ \E doc \in Docs : loadFile' = doc
    /\ ResetBody
    /\ state' = ProcessingState("parsing", Percent(5), MsgPreparing)
    /\ loadPc' = "timer150"
    /\ UserActs
    /\ UNCHANGED << namingStyle, useFolderPrefix, fnVars >>

OlderTimer150 ==
    /\ olderPc = "timer150"
    /\ ~Running
    /\ state' = ProcessingState("parsing", Percent(20), MsgReading)
    /\ olderPc' = "arrayBuffer"
    /\ UNCHANGED << loadPc, loadFile >>
    /\ UNCHANGED << layers, layerMap, stats, namingStyle, useFolderPrefix, olderFile,
                    alert, exportVars, fnVars >>

OlderArrayBuffer ==
    /\ olderPc = "arrayBuffer"
    /\ ~Running
    /\ state' = ProcessingState("parsing", Percent(45), MsgParsing)
    /\ olderPc' = "timer100"
    /\ UNCHANGED << loadPc, loadFile >>
    /\ UNCHANGED << layers, layerMap, stats, namingStyle, useFolderPrefix, olderFile,
                    alert, exportVars, fnVars >>

OlderTimer100 ==
    /\ olderPc = "timer100"
    /\ ~Running
    /\ olderPc' = "readPsd"
    /\ UNCHANGED << loadPc, loadFile >>
    /\ UNCHANGED << layers, layerMap, state, stats, namingStyle, useFolderPrefix,
                    olderFile, alert, exportVars, fnVars >>

\* readPsd of the older load returned
OlderReadPsd ==
    /\ olderPc = "readPsd"
    /\ ~Running
    /\ LET made == transformLayers(olderFile, IdBase(FreshGen))
       IN /\ layerMap' = [k \in DOMAIN layerMap \cup DOMAIN made.map |->
                             IF k \in DOMAIN made.map THEN made.map[k] ELSE layerMap[k]]
          /\ layers' = made.nodes
          /\ stats' = countStats(made.nodes)
    /\ state' = ProcessingState("parsing", Percent(100), MsgLoaded)
    /\ olderPc' = "timer400"
    /\ UNCHANGED << loadPc, loadFile >>
    /\ UNCHANGED << namingStyle, useFolderPrefix, olderFile, alert, exportVars, fnVars >>

OlderTimer400 ==
    /\ olderPc = "timer400"
    /\ ~Running
    /\ state' = ProcessingState("ready", Percent(100), MsgEngineIsReady)
    /\ olderPc' = "idle"
    /\ UNCHANGED << loadPc, loadFile >>
    /\ UNCHANGED << layers, layerMap, stats, namingStyle, useFolderPrefix, olderFile,
                    alert, exportVars, fnVars >>

\* the catch block of the older load
OlderFails ==
    /\ olderPc \in {"arrayBuffer", "readPsd"}
    /\ ~Running
    /\ state' = ProcessingState("idle", Percent(0), MsgParseFailed)
    /\ alert' = "parse failed"
    /\ olderPc' = "idle"
    /\ UNCHANGED << loadPc, loadFile >>
    /\ UNCHANGED << layers, layerMap, stats, namingStyle, useFolderPrefix, olderFile,
                    exportVars, fnVars >>

\* the loader and reset alone: the user neither toggles nor exports
LoadsNext ==
    \/ ChooseFile
    \/ ChooseFileAgain
    \/ LoadTimer150
    \/ LoadArrayBuffer
    \/ LoadTimer100
    \/ LoadReadPsd
    \/ LoadTimer400
    \/ LoadFails
    \/ OlderTimer150
    \/ OlderArrayBuffer
    \/ OlderTimer100
    \/ OlderReadPsd
    \/ OlderTimer400
    \/ OlderFails
    \/ Reset

SpecLoads == Init /\ [][LoadsNext]_vars

\* ------------------------------------------------------------------------
\* exportAssets
\* ------------------------------------------------------------------------
YIELD_EVERY == 5

Frame(list, root, prefixPath) ==
    [list |-> list, i |-> 1, root |-> root, prefixPath |-> prefixPath]

Top == exStack[Len(exStack)]

AtNode == exPc = "loop" /\ exStack # <<>> /\ Top.i <= Len(Top.list)

Current == Top.list[Top.i]

\* the loop of the top activation moves to its next element
Advanced == [exStack EXCEPT ![Len(exStack)].i = @ + 1]

\* the check left out: the walk starts whatever the count
nothingSelectedNever(total) == FALSE

\* if (totalLayers === 0)
nothingSelected(total) == total = 0

\* a prefix that keeps the parent's name only, not the accumulated path
childPrefixParentOnly(prefixPath, cleanName, usePrefix) ==
    IF usePrefix THEN cleanName \o << "_" >> ELSE <<>>

\* the prefixPath handed to the children of a group
childPrefix(prefixPath, cleanName, usePrefix) ==
    IF usePrefix THEN prefixPath \o cleanName \o << "_" >> ELSE <<>>

\* the name handed to zip.file
fileName(prefixPath, cleanName) == prefixPath \o cleanName \o DotPng

\* the root of the JSZip instance on which file() is called, in an activation
\* whose currentZip has the root currentRoot: the code calls zip.file, on the
\* archive itself
fileRoot(currentRoot) == <<>>

\* if (processedCount % 5 === 0) await new Promise(r => setTimeout(r, 10))
afterLeaf(count) == IF count % YIELD_EVERY = 0 THEN "yield" ELSE "loop"

\* the export button is clicked: exportAssets up to the first call of processLevel,
\* or to its return when nothing is selected
ExportClick ==
    /\ ExportButtonEnabled
    /\ exPc = "idle"
    /\ exLayers' = layers
    /\ exStyle' = namingStyle
    /\ exPrefix' = useFolderPrefix
    /\ exZip' = EmptyZip
    /\ totalLayers' = stats.selected
    /\ processedCount' = 0
    /\ exTrimmed' = Null
    /\ published' = <<>>
    /\ sinkCalls' = NoCalls
    /\ added' = <<>>
    /\ visited' = <<>>
    /\ download' = Null
    /\ IF nothingSelected(stats.selected)
       THEN /\ alert' = "select layers to export"
            /\ state' = ProcessingState("ready", Percent(100), MsgNothingSelected)
            /\ exPc' = "idle"
            /\ exStack' = <<>>
            /\ outcome' = "nothing selected"
       ELSE /\ alert' = "none"
            /\ state' = ProcessingState("exporting", Percent(0), MsgExportInit)
            /\ exPc' = "loop"
            /\ exStack' = << Frame(layers, <<>>, <<>>) >>
            /\ outcome' = "none"
    /\ UNCHANGED << layers, layerMap, stats, namingStyle, useFolderPrefix, loadPc, olderPc, olderFile,
                    loadFile, fnVars >>

\* processLevel at a group: the folder is made and its children are walked
VisitGroup ==
    /\ AtNode
    /\ Current.type = "group"
    /\ LET cleanName == transformName(Current.name, exStyle)
           folder == zipFolder(exZip, Top.root, cleanName)
       IN /\ exZip' = folder.files
          /\ sinkCalls' = [sinkCalls EXCEPT !.folder = @ + 1]
          /\ exStack' = IF Current.hasChildren
                        THEN Append(Advanced,
                                    Frame(Current.children, folder.root,
                                          childPrefix(Top.prefixPath, cleanName, exPrefix)))
                        ELSE Advanced
    /\ visited' = Append(visited, Current.id)
    /\ UNCHANGED << layers, layerMap, state, stats, namingStyle, useFolderPrefix, loadPc, olderPc, olderFile,
                    loadFile, alert, exPc, exLayers, exStyle, exPrefix, totalLayers,
                    processedCount, exTrimmed, published, added, download, outcome,
                    fnVars >>

\* a walk that drops the payload of a leaf from the table once it has read it
VisitLeafReleasing ==
    /\ AtNode
    /\ Current.type = "layer" /\ Current.isSelected
    /\ Current.id \in DOMAIN layerMap
    /\ layerMap' = [k \in DOMAIN layerMap \ {Current.id} |-> layerMap[k]]
    /\ processedCount' = processedCount + 1
    /\ state' = ProcessingState("exporting",
                                Ratio((processedCount + 1) * 100, totalLayers),
                                MsgSlicing(Current.name, processedCount + 1, totalLayers))
    /\ published' = Append(published, processedCount + 1)
    /\ exStack' = Advanced
    /\ \E e \in Envs :
          LET trimmed == trimCanvas(layerMap[Current.id], e).result
              cleanName == transformName(Current.name, exStyle)
          IN IF trimmed # Null
             THEN /\ exTrimmed' = [leaf |-> Current.id,
                                   root |-> fileRoot(Top.root),
                                   name |-> fileName(Top.prefixPath, cleanName)]
                  /\ exPc' = "toBlob"
             ELSE /\ exTrimmed' = Null
                  /\ exPc' = afterLeaf(processedCount + 1)
    /\ visited' = Append(visited, Current.id)
    /\ UNCHANGED << layers, stats, namingStyle, useFolderPrefix, loadPc, olderPc, olderFile,
                    loadFile, alert, exLayers, exStyle, exPrefix, exZip, totalLayers,
                    sinkCalls, added, download, outcome, fnVars >>

\* processLevel at a selected leaf with a payload: the count is published and
\* the layer is trimmed
VisitLeaf ==
    /\ AtNode
    /\ Current.type = "layer" /\ Current.isSelected
    /\ Current.id \in DOMAIN layerMap
    /\ processedCount' = processedCount + 1
    /\ state' = ProcessingState("exporting",
                                Ratio((processedCount + 1) * 100, totalLayers),
                                MsgSlicing(Current.name, processedCount + 1, totalLayers))
    /\ published' = Append(published, processedCount + 1)
    /\ exStack' = Advanced
    /\ \E e \in Envs :
          LET trimmed == trimCanvas(layerMap[Current.id], e).result
              cleanName == transformName(Current.name, exStyle)
          IN IF trimmed # Null
             THEN /\ exTrimmed' = [leaf |-> Current.id,
                                   root |-> fileRoot(Top.root),
                                   name |-> fileName(Top.prefixPath, cleanName)]
                  /\ exPc' = "toBlob"
             ELSE /\ exTrimmed' = Null
                  /\ exPc' = afterLeaf(processedCount + 1)
    /\ visited' = Append(visited, Current.id)
    /\ UNCHANGED << layers, layerMap, stats, namingStyle, useFolderPrefix, loadPc, olderPc, olderFile,
                    loadFile, alert, exLayers, exStyle, exPrefix, exZip, totalLayers,
                    sinkCalls, added, download, outcome, fnVars >>

\* a walk that counts and publishes a leaf before it looks for its payload
SkipLeafCounting ==
    /\ AtNode
    /\ Current.type = "layer"
    /\ ~Current.isSelected \/ Current.id \notin DOMAIN layerMap
    /\ exStack' = Advanced
    /\ visited' = Append(visited, Current.id)
    /\ processedCount' = IF Current.isSelected THEN processedCount + 1 ELSE processedCount
    /\ published' = IF Current.isSelected THEN Append(published, processedCount + 1)
                    ELSE published
    /\ UNCHANGED << layers, layerMap, state, stats, namingStyle, useFolderPrefix, loadPc, olderPc, olderFile,
                    loadFile, alert, exPc, exLayers, exStyle, exPrefix, exZip,
                    totalLayers, exTrimmed, sinkCalls, added, download, outcome, fnVars >>

\* processLevel at a leaf that is not selected, or whose payload is missing
SkipLeaf ==
    /\ AtNode
    /\ Current.type = "layer"
    /\ ~Current.isSelected \/ Current.id \notin DOMAIN layerMap
    /\ exStack' = Advanced
    /\ visited' = Append(visited, Current.id)
    /\ UNCHANGED << layers, layerMap, state, stats, namingStyle, useFolderPrefix, loadPc, olderPc, olderFile,
                    loadFile, alert, exPc, exLayers, exStyle, exPrefix, exZip,
                    totalLayers, processedCount, exTrimmed, published, sinkCalls, added,
                    download, outcome, fnVars >>

\* a handler that gives up the session: status back to idle
interruptedStateIdle == ProcessingState("idle", Percent(0), MsgExportInterrupted)

\* no handler around the finalization: the state of the packing step stays
interruptedStateNone == ProcessingState("exporting", Percent(99), MsgPacking)

\* setState({ status: 'ready', progress: 100, message: '导出中断' })
interruptedState == ProcessingState("ready", Percent(100), MsgExportInterrupted)

\* catch (err) of exportAssets
ExportCaught(how) ==
    /\ state' = interruptedState
    /\ exPc' = "idle"
    /\ exStack' = <<>>
    /\ exTrimmed' = Null
    /\ outcome' = how
    /\ UNCHANGED << layers, layerMap, stats, namingStyle, useFolderPrefix, loadPc, olderPc, olderFile,
                    loadFile, alert, exLayers, exStyle, exPrefix, exZip, totalLayers,
                    processedCount, published, sinkCalls, added, visited, download, fnVars >>

\* trimmed.canvas.toBlob throws: no handler in processLevel, so the exception
\* leaves every activation and is caught by exportAssets
ToBlobThrows ==
    /\ exPc = "toBlob"
    /\ ExportCaught("walk failed")

\* toBlob accepted the request: the walk is suspended until the callback
ToBlobStarts ==
    /\ exPc = "toBlob"
    /\ exPc' = "encoding"
    /\ UNCHANGED << layers, layerMap, state, stats, namingStyle, useFolderPrefix, loadPc, olderPc, olderFile,
                    loadFile, alert, exLayers, exStack, exStyle, exPrefix, exZip,
                    totalLayers, processedCount, exTrimmed, published, sinkCalls, added, visited,
                    download, outcome, fnVars >>

\* the toBlob callback, with a blob or with null
ToBlobCallback ==
    /\ exPc = "encoding"
    /\ \E blob \in {"blob", "null"} :
          IF blob = "blob"
          THEN /\ exZip' = zipFile(exZip, exTrimmed.root, exTrimmed.name,
                                   PngBlob(exTrimmed.leaf))
               /\ sinkCalls' = [sinkCalls EXCEPT !.file = @ + 1]
               /\ added' = Append(added, [leaf |-> exTrimmed.leaf,
                                          path |-> exTrimmed.root \o exTrimmed.name])
          ELSE UNCHANGED << exZip, sinkCalls, added >>
    /\ exTrimmed' = Null
    /\ exPc' = afterLeaf(processedCount)
    /\ UNCHANGED << visited, layers, layerMap, state, stats, namingStyle, useFolderPrefix, loadPc, olderPc, olderFile,
                    loadFile, alert, exLayers, exStack, exStyle, exPrefix, totalLayers,
                    processedCount, published, download, outcome, fnVars >>

YieldTimer ==
    /\ exPc = "yield"
    /\ exPc' = "loop"
    /\ UNCHANGED << layers, layerMap, state, stats, namingStyle, useFolderPrefix, loadPc, olderPc, olderFile,
                    loadFile, alert, exLayers, exStack, exStyle, exPrefix, exZip,
                    totalLayers, processedCount, exTrimmed, published, sinkCalls, added, visited,
                    download, outcome, fnVars >>

\* the loop of a nested processLevel ends: back in the loop of its caller
LevelReturns ==
    /\ exPc = "loop"
    /\ Len(exStack) > 1
    /\ Top.i > Len(Top.list)
    /\ exStack' = SubSeq(exStack, 1, Len(exStack) - 1)
    /\ UNCHANGED << layers, layerMap, state, stats, namingStyle, useFolderPrefix, loadPc, olderPc, olderFile,
                    loadFile, alert, exPc, exLayers, exStyle, exPrefix, exZip,
                    totalLayers, processedCount, exTrimmed, published, sinkCalls, added, visited,
                    download, outcome, fnVars >>

\* a walk that is taken for finished as soon as one level has returned
walkDoneEarly == exStack # <<>> /\ Top.i > Len(Top.list)

\* await processLevel(layers, zip) resolves: the loop of the outermost
\* activation is over
walkDone == Len(exStack) = 1 /\ Top.i > Len(Top.list)

\* processLevel(layers, zip) returns: the packing message and generateAsync
WalkCompletes ==
    /\ exPc = "loop"
    /\ walkDone
    /\ state' = ProcessingState("exporting", Percent(99), MsgPacking)
    /\ sinkCalls' = [sinkCalls EXCEPT !.generateAsync = @ + 1]
    /\ exPc' = "generate"
    /\ exStack' = <<>>
    /\ UNCHANGED << layers, layerMap, stats, namingStyle, useFolderPrefix, loadPc, olderPc, olderFile,
                    loadFile, alert, exLayers, exStyle, exPrefix, exZip, totalLayers,
                    processedCount, exTrimmed, published, added, visited, download, outcome,
                    fnVars >>

\* generateAsync resolves: the download and the final state
GenerateResolves ==
    /\ exPc = "generate"
    /\ download' = [files |-> exZip]
    /\ state' = ProcessingState("ready", Percent(100), MsgExportDone)
    /\ exPc' = "idle"
    /\ outcome' = "completed"
    /\ UNCHANGED << layers, layerMap, stats, namingStyle, useFolderPrefix, loadPc, olderPc, olderFile,
                    loadFile, alert, exLayers, exStack, exStyle, exPrefix, exZip,
                    totalLayers, processedCount, exTrimmed, published, sinkCalls, added, visited,
                    fnVars >>

\* generateAsync rejects
GenerateRejects ==
    /\ exPc = "generate"
    /\ ExportCaught("finalize failed")

Next ==
    \/ ChooseFile
    \/ LoadTimer150
    \/ LoadArrayBuffer
    \/ LoadTimer100
    \/ LoadReadPsd
    \/ LoadTimer400
    \/ LoadFails
    \/ Reset
    \/ ToggleSelect
    \/ SetNamingStyle
    \/ SetUseFolderPrefix
    \/ ExportClick
    \/ VisitGroup
    \/ VisitLeaf
    \/ SkipLeaf
    \/ ToBlobThrows
    \/ ToBlobStarts
    \/ ToBlobCallback
    \/ YieldTimer
    \/ LevelReturns
    \/ WalkCompletes
    \/ GenerateResolves
    \/ GenerateRejects

Spec == Init /\ [][Next]_vars

\* The steps of a running exportAssets. Between two awaits the walk runs to its
\* next await without interruption, and the promises it awaits are settled by
\* the browser: the toBlob callback is called, the 10 ms timer fires, and
\* generateAsync resolves or rejects.
ExportStep ==
    \/ VisitGroup
    \/ VisitLeaf
    \/ SkipLeaf
    \/ ToBlobThrows
    \/ ToBlobStarts
    \/ ToBlobCallback
    \/ YieldTimer
    \/ LevelReturns
    \/ WalkCompletes
    \/ GenerateResolves
    \/ GenerateRejects

\* the application when every awaited callback, timer and promise of an export
\* is eventually settled; the user and the loader may stop at any time
SpecLive == Init /\ [][Next]_vars /\ WF_vars(ExportStep)

\* ------------------------------------------------------------------------
\* The pure functions on their own: trimCanvas and imageDataToCanvas applied
\* once to an input drawn from a bounded set
\* ------------------------------------------------------------------------
\* 4000 x 4000 = TRIM_LIMIT and 8000 x 6000 = PIXEL_LIMIT pixels, and one row more
BigSizes == { <<4000, 4000>>, <<4000, 4001>>, <<8000, 6000>>, <<8000, 6001>> }

Sizes == ((0..MaxDim) \X (0..MaxDim)) \cup BigSizes

\* the coordinates at which the test surfaces are painted: all of a small
\* surface, the first two and the last of each axis of a large one
Coords(n) == IF n <= MaxDim THEN 0..(n - 1) ELSE {0, 1, n - 1}

RECURSIVE SubsetsUpTo(_, _)
SubsetsUpTo(S, k) ==
    IF k = 0 THEN {{}}
    ELSE LET smaller == SubsetsUpTo(S, k - 1)
         IN smaller \cup {p \cup {x} : p \in smaller, x \in S}

Alphas == {0, 1, 255}

CanvasesOfSize(w, h) ==
    {Canvas(w, h, Paint(w, pts, a)) :
        pts \in SubsetsUpTo(Coords(w) \X Coords(h), MaxPainted), a \in Alphas}

\* nonzero alpha exactly in the rectangle [2,3]..[5,7] of a 8 x 10 surface
ExampleCanvas == Canvas(8, 10, Paint(8, (2..5) \X (3..7), 255))

TestCanvases ==
    UNION {CanvasesOfSize(sz[1], sz[2]) : sz \in Sizes} \cup {ExampleCanvas}

\* layer records: with a surface, with a pixel buffer, with neither
TestLayers ==
    UNION {{RawLayer(c, Null, c.width, c.height),
            RawLayer(Null, [bytes |-> c.data], c.width, c.height),
            RawLayer(Null, Null, c.width, c.height)} : c \in TestCanvases}

\* layer names: every string of up to MaxNameLen characters, of letters of
\* both cases, a digit, whitespace, path-unsafe characters and the underscore
NameChars == {"a", "B", "1", " ", "\t", "/", "?", "_"}

TestNames ==
    {[kind |-> "name", name |-> n] :
        n \in UNION {[1..k -> NameChars] : k \in 0..MaxNameLen}}

FnInit ==
    /\ AppInit
    /\ fnCall = "none"
    /\ fnArg \in TestCanvases \cup TestLayers \cup TestNames
    /\ fnEnv = NominalEnv
    /\ fnRet = Null
    /\ fnFirst = Null

CallTrimCanvas ==
    /\ fnCall = "none"
    /\ fnArg.kind \in {"canvas", "layer"}
    /\ \E e \in Envs :
          /\ fnEnv' = e
          /\ fnRet' = trimCanvas(fnArg, e)
    /\ fnCall' = "trimCanvas"
    /\ UNCHANGED << fnArg, fnFirst, appVars >>

CallImageDataToCanvas ==
    /\ fnCall = "none"
    /\ fnArg.kind = "layer"
    /\ \E e \in Envs :
          /\ fnEnv' = e
          /\ fnRet' = imageDataToCanvas(fnArg, e)
    /\ fnCall' = "imageDataToCanvas"
    /\ UNCHANGED << fnArg, fnFirst, appVars >>

CallTransformName ==
    /\ fnCall = "none"
    /\ fnArg.kind = "name"
    /\ \E style \in NamingStyles :
          fnRet' = [style |-> style, name |-> transformName(fnArg.name, style)]
    /\ fnCall' = "transformName"
    /\ UNCHANGED << fnArg, fnEnv, fnFirst, appVars >>

\* trimCanvas(trimCanvas(s).canvas): the surface a first call returned is
\* trimmed again; the platform fails at most MaxFaults times over both calls
CallTrimCanvasAgain ==
    /\ fnCall = "trimCanvas"
    /\ fnFirst = Null
    /\ fnRet.result # Null
    /\ \E e \in Envs :
          /\ FaultCount(fnEnv) + FaultCount(e) <= MaxFaults
          /\ fnEnv' = e
          /\ fnRet' = trimCanvas(fnRet.result.canvas, e)
    /\ fnArg' = fnRet.result.canvas
    /\ fnFirst' = [arg |-> fnArg, env |-> fnEnv, ret |-> fnRet]
    /\ UNCHANGED << fnCall, appVars >>

FnNext ==
    \/ CallTrimCanvas
    \/ CallImageDataToCanvas
    \/ CallTrimCanvasAgain
    \/ CallTransformName

SpecFn == FnInit /\ [][FnNext]_vars

\* ------------------------------------------------------------------------
\* Notions the properties are stated with
\* ------------------------------------------------------------------------
NodeById(list, id) == CHOOSE n \in NodeSet(list) : n.id = id

HasNode(list, id) == \E n \in NodeSet(list) : n.id = id

\* the groups that enclose the node id, from the top level down to its parent
RECURSIVE AncestorsOf(_, _)
AncestorsOf(list, id) ==
    IF \E i \in 1..Len(list) : list[i].id = id THEN <<>>
    ELSE LET i == CHOOSE k \in 1..Len(list) : HasNode(list[k].children, id)
         IN <<list[i]>> \o AncestorsOf(list[i].children, id)

\* the concatenation of transformName(g.name) \o sep over the groups gs
RECURSIVE JoinNames(_, _, _)
JoinNames(gs, style, sep) ==
    IF gs = <<>> THEN <<>>
    ELSE transformName(Head(gs).name, style) \o sep \o JoinNames(Tail(gs), style, sep)

SelectedLeaves(list) == {n \in NodeSet(list) : n.type = "layer" /\ n.isSelected}

\* the positions of "/" in an archive path, its folder part and its last component
SlashesOf(path) == {i \in 1..Len(path) : path[i] = "/"}

LastSlash(path) ==
    IF SlashesOf(path) = {} THEN 0
    ELSE CHOOSE i \in SlashesOf(path) : \A j \in SlashesOf(path) : j <= i

DirName(path) == SubSeq(path, 1, LastSlash(path))

BaseName(path) == SubSeq(path, LastSlash(path) + 1, Len(path))

\* an exportAssets that went past the nothing-selected check has ended
ExportEnded == exPc = "idle" /\ outcome \in {"completed", "walk failed", "finalize failed"}

\* ------------------------------------------------------------------------
\* C1: every file an export adds lies in the archive folder of the groups
\* that enclose its leaf (the folder path is the transformed names of the
\* ancestor groups, root to parent, a top-level leaf lies at the archive
\* root), and a completed export holds one file for every leaf whose blob was
\* added.
\* ------------------------------------------------------------------------
C1_FilesMirrorFolders ==
    /\ \A k \in 1..Len(added) :
          DirName(added[k].path)
              = JoinNames(AncestorsOf(exLayers, added[k].leaf), exStyle, Slash)
    /\ outcome = "completed" =>
          Cardinality(FilesOf(download.files))
              = Cardinality({added[k].leaf : k \in 1..Len(added)})

\* ------------------------------------------------------------------------
\* C2: the last path component of every file an export adds is
\* prefixPath + transformName(leaf.name) + ".png", where prefixPath is the
\* concatenation of transformName(g.name) + "_" over the ancestor groups of
\* the leaf, root to parent, when useFolderPrefix is true, and empty when it
\* is false.
\* ------------------------------------------------------------------------
ExpectedPrefix(list, id, style, usePrefix) ==
    IF usePrefix THEN JoinNames(AncestorsOf(list, id), style, << "_" >>) ELSE <<>>

C2_FileNameIsPrefixedName ==
    \A k \in 1..Len(added) :
        BaseName(added[k].path)
            = ExpectedPrefix(exLayers, added[k].leaf, exStyle, exPrefix)
                \o transformName(NodeById(exLayers, added[k].leaf).name, exStyle)
                \o DotPng

\* a file was added for a leaf two groups deep, with the prefix enabled
C2_Witness ==
    \E k \in 1..Len(added) :
        /\ exPrefix
        /\ Len(AncestorsOf(exLayers, added[k].leaf)) = 2
        /\ Len(ExpectedPrefix(exLayers, added[k].leaf, exStyle, exPrefix)) > 0

\* ------------------------------------------------------------------------
\* C3: an exportAssets invoked on a tree without a selected leaf ends with the
\* nothing-selected outcome (the alert is raised and the status leaves
\* "exporting"), and never touches the archive: no folder, no
\* file, no serialization, no download.
\* ------------------------------------------------------------------------
C3_NothingSelectedAborts ==
    (exLayers # <<>> /\ SelectedLeaves(exLayers) = {}) =>
        /\ exPc = "idle"
        /\ outcome = "nothing selected"
        /\ alert = "select layers to export"
        /\ state.status # "exporting"
        /\ sinkCalls = NoCalls
        /\ exZip = EmptyZip
        /\ added = <<>>
        /\ download = Null

\* the export button was clicked on a loaded tree in which nothing is selected
C3_Witness ==
    /\ exLayers # <<>>
    /\ SelectedLeaves(exLayers) = {}
    /\ outcome = "nothing selected"
    /\ alert = "select layers to export"

\* ------------------------------------------------------------------------
\* C4: a failure while trimming or encoding one selected leaf (an exception of
\* trimCanvas or toBlob included) does not abort the walk: the export still
\* visits the rest of the tree and serializes the archive, so every export
\* that went past the nothing-selected check and has ended has called
\* generateAsync.
\* ------------------------------------------------------------------------
C4_LeafFailureDoesNotAbort ==
    ExportEnded => sinkCalls.generateAsync = 1

\* ------------------------------------------------------------------------
\* C5: when generateAsync fails the export ends as a reported failure: the
\* status becomes "ready", nothing is downloaded, the message is not the
\* nothing-selected message, and the tree, its selection flags and the
\* payload table are as they were.
\* ------------------------------------------------------------------------
C5_FinalizeFailureIsReported ==
    [][(exPc = "generate" /\ outcome' = "finalize failed") =>
          /\ state'.status = "ready"
          /\ exPc' = "idle"
          /\ download' = Null
          /\ state'.message # MsgNothingSelected
          /\ state'.message # MsgExportDone
          /\ layers' = layers
          /\ layerMap' = layerMap
          /\ stats' = stats]_vars

\* generateAsync failed for a loaded tree
C5_Witness ==
    /\ outcome = "finalize failed"
    /\ layers # <<>>
    /\ sinkCalls.generateAsync = 1

\* ------------------------------------------------------------------------
\* C6: during one export walk over a tree with N selected leaves the
\* published processedCount values are 1, 2, ..., N, each one more than the
\* one before, and N has been published when the archive is serialized and
\* when the export ends.
\* ------------------------------------------------------------------------
C6_PublishedCountsReachN ==
    /\ \A k \in 1..Len(published) : published[k] = k
    /\ Len(published) <= totalLayers
    /\ (exPc = "generate" \/ ExportEnded) => Len(published) = totalLayers

\* ------------------------------------------------------------------------
\* Notions the properties of the surface functions are stated with
\* ------------------------------------------------------------------------
\* the surface a call works on when it is handed one: the argument itself, or
\* the surface the layer record carries (Null when it carries none)
SurfaceOf(input) == IF input.kind = "canvas" THEN input ELSE input.canvas

PixelCount(s) == s.width * s.height

\* the coordinates of the pixels of s some byte of which was written
WrittenPixels(s) ==
    {<< (i \div 4) % s.width, (i \div 4) \div s.width >> :
        i \in {j \in DOMAIN s.data : j \div 4 < PixelCount(s)}}

\* the coordinates of the pixels of s whose alpha is not zero
VisiblePixels(s) ==
    {<< (i \div 4) % s.width, (i \div 4) \div s.width >> :
        i \in {j \in DOMAIN s.data :
                  j % 4 = 3 /\ s.data[j] > 0 /\ j \div 4 < PixelCount(s)}}

MinOf(S) == CHOOSE m \in S : \A n \in S : m <= n

MaxOf(S) == CHOOSE m \in S : \A n \in S : n <= m

TrimCalledOnSurface == fnCall = "trimCanvas" /\ SurfaceOf(fnArg) # Null

\* ------------------------------------------------------------------------
\* C7: for every surface within the scan ceiling that has a pixel of nonzero
\* alpha, trimCanvas (on a call during which the platform hands out the
\* contexts and neither the pixel read nor the copy throws) returns the
\* tightest box around the nonzero-alpha pixels: width maxX - minX + 1, height
\* maxY - minY + 1, and the pixel (i, j) of the result is the pixel
\* (minX + i, minY + j) of the input.
\* ------------------------------------------------------------------------
C7_TrimIsTightestBox ==
    (/\ TrimCalledOnSurface
     /\ PixelCount(SurfaceOf(fnArg)) <= TRIM_LIMIT
     /\ VisiblePixels(SurfaceOf(fnArg)) # {}
     /\ FaultCount(fnEnv) = 0) =>
        LET s == SurfaceOf(fnArg)
            vis == VisiblePixels(s)
            minX == MinOf({p[1] : p \in vis})
            maxX == MaxOf({p[1] : p \in vis})
            minY == MinOf({p[2] : p \in vis})
            maxY == MaxOf({p[2] : p \in vis})
            r == fnRet.result
        IN  /\ r # Null
            /\ r.width = maxX - minX + 1
            /\ r.height = maxY - minY + 1
            /\ r.canvas.width = r.width
            /\ r.canvas.height = r.height
            /\ \A p \in WrittenPixels(s) \cup (Coords(s.width) \X Coords(s.height)) :
                  (p[1] \in minX..maxX /\ p[2] \in minY..maxY) =>
                      Pixel(r.canvas, p[1] - minX, p[2] - minY) = Pixel(s, p[1], p[2])
            /\ \A q \in WrittenPixels(r.canvas) :
                  Pixel(r.canvas, q[1], q[2]) = Pixel(s, minX + q[1], minY + q[2])

\* the 8 x 10 surface with nonzero alpha exactly in [2,3]..[5,7] came back as a
\* 4 x 5 surface whose pixel (0, 0) is the input's pixel (2, 3)
C7_Witness ==
    /\ fnCall = "trimCanvas"
    /\ fnArg = ExampleCanvas
    /\ FaultCount(fnEnv) = 0
    /\ fnRet.result # Null
    /\ fnRet.result.width = 4
    /\ fnRet.result.height = 5
    /\ Pixel(fnRet.result.canvas, 0, 0) = Pixel(ExampleCanvas, 2, 3)
    /\ Pixel(fnRet.result.canvas, 3, 4) = Pixel(ExampleCanvas, 5, 7)
    /\ Pixel(ExampleCanvas, 2, 3) # Pixel(ExampleCanvas, 5, 7)

\* ------------------------------------------------------------------------
\* C8, as stated: for every surface size, a surface in which every pixel's
\* alpha is zero yields a null trim result.
\* ------------------------------------------------------------------------
C8_EverySizeYieldsNull ==
    (/\ TrimCalledOnSurface
     /\ VisiblePixels(SurfaceOf(fnArg)) = {}
     /\ FaultCount(fnEnv) = 0) =>
        fnRet.result = Null

\* C8, amended: a surface of at most TRIM_LIMIT pixels in which every pixel's
\* alpha is zero, and whose pixels can be read, yields a null trim result.
C8_TransparentWithinCeilingYieldsNull ==
    (/\ TrimCalledOnSurface
     /\ VisiblePixels(SurfaceOf(fnArg)) = {}
     /\ PixelCount(SurfaceOf(fnArg)) <= TRIM_LIMIT
     /\ fnEnv.getImageData = "ok") =>
        fnRet.result = Null

\* a surface with coloured pixels, all of alpha zero, was scanned and yielded null
C8_Witness ==
    /\ TrimCalledOnSurface
    /\ WrittenPixels(SurfaceOf(fnArg)) # {}
    /\ VisiblePixels(SurfaceOf(fnArg)) = {}
    /\ fnRet.scanned
    /\ fnRet.path = "empty"
    /\ fnRet.result = Null

\* ------------------------------------------------------------------------
\* C9: on a surface of more than TRIM_LIMIT pixels trimCanvas does not scan
\* and returns the same surface with its width and height, whatever its
\* transparent margins; the comparison is strict: a surface of exactly
\* TRIM_LIMIT pixels is not bypassed, it is scanned as soon as its context is
\* there and its pixels can be read.
\* ------------------------------------------------------------------------
C9_BypassAboveCeilingOnly ==
    TrimCalledOnSurface =>
        LET s == SurfaceOf(fnArg) IN
        /\ PixelCount(s) > TRIM_LIMIT =>
              /\ ~fnRet.scanned
              /\ fnRet.result = TrimResult(s, s.width, s.height)
        /\ PixelCount(s) = TRIM_LIMIT =>
              /\ fnRet.path # "bypass"
              /\ (fnEnv.trimCtx /\ fnEnv.getImageData = "ok") => fnRet.scanned

\* a surface above the ceiling with one visible pixel and wide transparent
\* margins came back whole
C9_Witness ==
    /\ TrimCalledOnSurface
    /\ PixelCount(SurfaceOf(fnArg)) > TRIM_LIMIT
    /\ Cardinality(VisiblePixels(SurfaceOf(fnArg))) = 1
    /\ fnRet.path = "bypass"
    /\ fnRet.result.canvas = SurfaceOf(fnArg)
    /\ fnRet.result.width = SurfaceOf(fnArg).width

\* ------------------------------------------------------------------------
\* C10, as stated: imageDataToCanvas on any layer whose width * height is
\* above PIXEL_LIMIT returns null, and allocates nothing.
\* ------------------------------------------------------------------------
C10_AnyLayerAboveLimitRefused ==
    (fnCall = "imageDataToCanvas" /\ fnArg.width * fnArg.height > PIXEL_LIMIT) =>
        (fnRet.canvas = Null /\ fnRet.allocs = 0)

\* C10, amended: imageDataToCanvas on a layer that carries no precomputed
\* surface and whose width * height is above PIXEL_LIMIT returns null, and
\* allocates nothing.
C10_LayerWithoutSurfaceAboveLimitRefused ==
    (/\ fnCall = "imageDataToCanvas"
     /\ fnArg.canvas = Null
     /\ fnArg.width * fnArg.height > PIXEL_LIMIT) =>
        (fnRet.canvas = Null /\ fnRet.allocs = 0)

\* a layer with a pixel buffer above the limit was refused by the guard
C10_Witness ==
    /\ fnCall = "imageDataToCanvas"
    /\ fnArg.canvas = Null
    /\ fnArg.canvasData # Null
    /\ fnArg.width * fnArg.height > PIXEL_LIMIT
    /\ fnRet.log = "refused"
    /\ fnRet.canvas = Null

\* ------------------------------------------------------------------------
\* C11: trimming is idempotent (on calls during which the platform hands out
\* the contexts and neither the pixel read nor the copy throws): a surface
\* whose box of nonzero-alpha pixels is its full extent comes back as that
\* same surface, without a copy; hence trimming the surface a trim returned
\* gives the same width, height and pixels again.
\* ------------------------------------------------------------------------
BoxIsFullExtent(s) ==
    /\ VisiblePixels(s) # {}
    /\ {0, s.width - 1} \subseteq {p[1] : p \in VisiblePixels(s)}
    /\ {0, s.height - 1} \subseteq {p[2] : p \in VisiblePixels(s)}

SameSurface(a, b) ==
    /\ a.width = b.width
    /\ a.height = b.height
    /\ \A p \in WrittenPixels(a) \cup WrittenPixels(b) :
          Pixel(a, p[1], p[2]) = Pixel(b, p[1], p[2])

C11_TrimIsIdempotent ==
    /\ (/\ TrimCalledOnSurface
        /\ FaultCount(fnEnv) = 0
        /\ BoxIsFullExtent(SurfaceOf(fnArg))) =>
            /\ fnRet.result = TrimResult(SurfaceOf(fnArg), SurfaceOf(fnArg).width,
                                         SurfaceOf(fnArg).height)
            /\ fnRet.allocs = 0
    /\ (/\ fnCall = "trimCanvas"
        /\ fnFirst # Null
        /\ FaultCount(fnFirst.env) = 0
        /\ FaultCount(fnEnv) = 0) =>
            /\ fnRet.result # Null
            /\ fnRet.result.width = fnFirst.ret.result.width
            /\ fnRet.result.height = fnFirst.ret.result.height
            /\ SameSurface(fnRet.result.canvas, fnFirst.ret.result.canvas)

\* the 8 x 10 example was trimmed to 4 x 5, and trimming that result again
\* returned the 4 x 5 surface as it was
C11_Witness ==
    /\ fnCall = "trimCanvas"
    /\ fnFirst # Null
    /\ fnFirst.arg = ExampleCanvas
    /\ FaultCount(fnFirst.env) = 0
    /\ FaultCount(fnEnv) = 0
    /\ fnArg.width = 4
    /\ fnArg.height = 5
    /\ fnRet.path = "full"
    /\ fnRet.result.canvas = fnArg

\* ------------------------------------------------------------------------
\* C12: whenever trimCanvas returns a result that is not null, on the scan
\* path, the no-trim path, the size-bypass path or the failure-fallback path,
\* the width and height fields of the result are the dimensions of the
\* returned surface, and both are at least 1.
\* ------------------------------------------------------------------------
C12_ResultFieldsAreSurfaceDimensions ==
    (fnCall = "trimCanvas" /\ fnRet.result # Null) =>
        /\ fnRet.path \in {"cropped", "full", "bypass", "fallback"}
        /\ fnRet.result.width = fnRet.result.canvas.width
        /\ fnRet.result.height = fnRet.result.canvas.height
        /\ fnRet.result.width >= 1
        /\ fnRet.result.height >= 1

\* a surface that is not square was cropped to a box that is not square
C12_Witness ==
    /\ fnCall = "trimCanvas"
    /\ fnRet.result # Null
    /\ fnRet.path = "cropped"
    /\ fnRet.result.width # fnRet.result.height
    /\ fnRet.result.width < SurfaceOf(fnArg).width
    /\ fnRet.result.canvas.width = fnRet.result.width

\* ------------------------------------------------------------------------
\* C13, as stated: imageDataToCanvas never lets a failure escape as an
\* exception: a missing pixel buffer, a zero width or height, an oversized
\* request, an unavailable drawing context and any allocation or copy error
\* all produce a null result, and the memory-exhausted class of error is
\* signalled differently from a generic failure.
\* ------------------------------------------------------------------------
\* the call got as far as the allocation of the pixel copy
SynthesisReached ==
    /\ fnArg.canvas = Null
    /\ fnArg.canvasData # Null
    /\ fnArg.width # 0
    /\ fnArg.height # 0
    /\ fnArg.width * fnArg.height <= PIXEL_LIMIT
    /\ fnEnv.matCtx

\* one of the failures the claim lists happens on this call
ListedFailure ==
    \/ fnArg.canvasData = Null
    \/ fnArg.width = 0
    \/ fnArg.height = 0
    \/ fnArg.width * fnArg.height > PIXEL_LIMIT

SignalsAreDistinct ==
    /\ (SynthesisReached /\ fnEnv.imageData \in {"RangeError", "OutOfMemory"}) =>
          (fnRet.canvas = Null /\ fnRet.log = "memory exhausted")
    /\ (SynthesisReached /\ fnEnv.imageData = "OtherError") =>
          (fnRet.canvas = Null /\ fnRet.log = "unknown error")
    /\ (fnArg.canvas = Null /\ ~ListedFailure /\ ~fnEnv.matCtx) => fnRet.canvas = Null

C13_EveryListedFailureYieldsNull ==
    fnCall = "imageDataToCanvas" =>
        /\ ~fnRet.threw
        /\ ListedFailure => fnRet.canvas = Null
        /\ SignalsAreDistinct

\* C13, amended: imageDataToCanvas never lets a failure escape as an
\* exception; on a layer that carries no precomputed surface, a missing pixel
\* buffer, a zero width or height, an oversized request, an unavailable
\* drawing context and any allocation or copy error all produce a null result,
\* and the memory-exhausted class of error is signalled differently from a
\* generic failure. A layer that carries a precomputed surface gets that
\* surface back, whatever its buffer and size.
C13_FailuresOfSynthesisYieldNull ==
    fnCall = "imageDataToCanvas" =>
        /\ ~fnRet.threw
        /\ (fnArg.canvas = Null /\ ListedFailure) => fnRet.canvas = Null
        /\ fnArg.canvas # Null => fnRet.canvas = fnArg.canvas
        /\ SignalsAreDistinct

\* the allocation ran out of memory: null, with the memory-exhausted warning
C13_Witness ==
    /\ fnCall = "imageDataToCanvas"
    /\ SynthesisReached
    /\ fnEnv.imageData = "OutOfMemory"
    /\ fnRet.canvas = Null
    /\ fnRet.log = "memory exhausted"
    /\ ~fnRet.threw

\* ------------------------------------------------------------------------
\* C14: for every name and each of the four naming styles the output of
\* transformName contains none of the path-unsafe characters and neither
\* starts nor ends with whitespace, and the case style is applied to the
\* sanitized and trimmed name, not to the raw name: the output is the styled
\* form of the name with its unsafe characters replaced and its ends trimmed.
\* ------------------------------------------------------------------------
Sanitized(name) == Trim(ReplaceUnsafe(name))

Styled(base, style) ==
    CASE style = "snake_case" -> ReplaceSpaceRuns(LowerAll(base), <<"_">>)
      [] style = "kebab-case" -> ReplaceSpaceRuns(LowerAll(base), <<"-">>)
      [] style = "PascalCase" -> ReplaceSpaceRuns(CapitalizeWords(base), <<>>)
      [] style = "original" -> base

C14_TransformedNameIsSafe ==
    fnCall = "transformName" =>
        LET out == fnRet.name IN
        /\ \A i \in 1..Len(out) : out[i] \notin UnsafeChars
        /\ out # <<>> => (~IsSpace(out[1]) /\ ~IsSpace(out[Len(out)]))
        /\ out = Styled(Sanitized(fnArg.name), fnRet.style)
        /\ fnRet.style # "original" => \A i \in 1..Len(out) : ~IsSpace(out[i])

\* a name with whitespace at both ends, an unsafe character and two words was
\* transformed to PascalCase, and the raw name styled first would differ
C14_Witness ==
    /\ fnCall = "transformName"
    /\ fnRet.style = "PascalCase"
    /\ fnArg.name = << " ", "a", "/", "B" >>
    /\ fnRet.name = << "A", "_", "b" >>
    /\ fnRet.name # Sanitized(Styled(fnArg.name, fnRet.style))

\* ------------------------------------------------------------------------
\* C15: once reset was invoked while an export walk was suspended (at a yield
\* timer or awaiting the PNG encoding, so before any serialization), the
\* export in flight is discarded: no later step serializes or downloads an
\* archive, and the state stays as reset left it: status "idle", progress 0,
\* empty tree.
\* ------------------------------------------------------------------------
\* an export is in flight, no load is, and reset has emptied the tree and set
\* the idle state before the archive was serialized
ResetDuringWalk ==
    /\ exPc # "idle"
    /\ loadPc = "idle"
    /\ layers = <<>>
    /\ state = ProcessingState("idle", Percent(0), MsgEngineReady)
    /\ sinkCalls.generateAsync = 0

C15_ResetDiscardsExport ==
    [][ResetDuringWalk =>
          /\ sinkCalls'.generateAsync = 0
          /\ download' = Null
          /\ layers' = <<>>
          /\ state'.status = "idle"
          /\ state'.progress = Percent(0)]_vars

\* ------------------------------------------------------------------------
\* C16: at most one export is in flight: from the start of exportAssets until
\* it resolves the status is "exporting" in every intermediate state, so the
\* export trigger (enabled only for a non-empty tree and a status other than
\* "exporting") is never enabled while an export is in flight, whatever the
\* user or a load does in between.
\* ------------------------------------------------------------------------
C16_OneExportInFlight ==
    exPc # "idle" => (state.status = "exporting" /\ ~ExportButtonEnabled)

\* ------------------------------------------------------------------------
\* C17: if the copy step of trimCanvas fails after the box was computed (the
\* context of the cropped surface cannot be obtained, or the allocation or
\* the blit throws), the original surface is not lost: the result is the
\* original, untrimmed surface with its own width and height, never a surface
\* of the cropped size without the copied pixels, and never null.
\* ------------------------------------------------------------------------
\* the call scanned a surface that has to be cropped, and the copy step failed
CopyStepFailed ==
    /\ TrimCalledOnSurface
    /\ PixelCount(SurfaceOf(fnArg)) > 0
    /\ PixelCount(SurfaceOf(fnArg)) <= TRIM_LIMIT
    /\ fnEnv.trimCtx
    /\ fnEnv.getImageData = "ok"
    /\ VisiblePixels(SurfaceOf(fnArg)) # {}
    /\ ~BoxIsFullExtent(SurfaceOf(fnArg))
    /\ (~fnEnv.cropCtx \/ fnEnv.drawImage # "ok")

C17_CopyFailureKeepsOriginal ==
    CopyStepFailed =>
        fnRet.result = TrimResult(SurfaceOf(fnArg), SurfaceOf(fnArg).width,
                                  SurfaceOf(fnArg).height)

\* ------------------------------------------------------------------------
\* C18: in an export that does not abort the archive is serialized exactly
\* once, and only after every node of the tree was visited; no folder is
\* created and no file is added once the serialization has started; the
\* download is triggered only after the serialization succeeded; and the final
\* 100% "ready" state of a finished export is published only with the download
\* triggered.
\* ------------------------------------------------------------------------
AllNodesVisited ==
    {visited[k] : k \in 1..Len(visited)} = {n.id : n \in NodeSet(exLayers)}

C18_Order ==
    /\ sinkCalls.generateAsync <= 1
    /\ sinkCalls.generateAsync = 1 => (AllNodesVisited /\ exStack = <<>>)
    /\ download # Null => (sinkCalls.generateAsync = 1 /\ outcome = "completed")
    /\ outcome = "completed" =>
          (sinkCalls.generateAsync = 1 /\ download = [files |-> exZip])

C18_Steps ==
    /\ sinkCalls.generateAsync = 1 =>
          (\/ sinkCalls'.generateAsync = 0
           \/ (exZip' = exZip /\ sinkCalls' = sinkCalls /\ added' = added))
    /\ (state'.message = MsgExportDone /\ state.message # MsgExportDone) =>
          (/\ exPc = "generate"
           /\ download' # Null
           /\ state' = ProcessingState("ready", Percent(100), MsgExportDone))

C18_SerializedOnceAfterWalk == []C18_Order /\ [][C18_Steps]_vars

\* an export of a tree with a group completed: every node visited, a file
\* added, the archive serialized once and downloaded
C18_Witness ==
    /\ outcome = "completed"
    /\ sinkCalls.generateAsync = 1
    /\ sinkCalls.folder >= 1
    /\ added # <<>>
    /\ Len(visited) >= 3
    /\ AllNodesVisited
    /\ download # Null

\* ------------------------------------------------------------------------
\* C19: a selected leaf whose id has no entry in the payload table is skipped
\* without any effect: processedCount is not incremented, no progress is
\* published, no file is added, no error is raised, and the walk goes on with
\* the next node.
\* ------------------------------------------------------------------------
\* the walk stands at a selected leaf whose payload is missing
AtLeafWithoutPayload ==
    /\ AtNode
    /\ Current.type = "layer"
    /\ Current.isSelected
    /\ Current.id \notin DOMAIN layerMap

C19_MissingPayloadIsSkipped ==
    [][AtLeafWithoutPayload =>
          /\ visited' = Append(visited, Current.id)
          /\ exStack' = Advanced
          /\ exPc' = "loop"
          /\ processedCount' = processedCount
          /\ published' = published
          /\ state' = state
          /\ added' = added
          /\ exZip' = exZip
          /\ sinkCalls' = sinkCalls
          /\ alert' = alert
          /\ outcome' = outcome]_vars

\* the walk has just passed a selected leaf whose payload a reset had removed,
\* after it had counted one leaf
C19_Witness ==
    /\ exPc = "loop"
    /\ visited # <<>>
    /\ processedCount = 1
    /\ published = << 1 >>
    /\ LET n == NodeById(exLayers, visited[Len(visited)])
       IN n.type = "layer" /\ n.isSelected /\ n.id \notin DOMAIN layerMap

\* ------------------------------------------------------------------------
\* C20: every group the walk has reached has a folder entry named
\* transformName(group.name), nested inside the folder of its parent group,
\* from the step that reached it on, so before any of its descendants is
\* processed, and also when the group contributes no file.
\* ------------------------------------------------------------------------
FolderPathOf(list, id, style) ==
    JoinNames(AncestorsOf(list, id) \o << NodeById(list, id) >>, style, Slash)

C20_EveryGroupGetsItsFolder ==
    \A k \in 1..Len(visited) :
        NodeById(exLayers, visited[k]).type = "group" =>
            FolderPathOf(exLayers, visited[k], exStyle) \in FoldersOf(exZip)

\* ------------------------------------------------------------------------
\* C21: in every reachable state, across any sequence of load, toggle, export
\* and reset, the published progress lies in 0..100 inclusive.
\* ------------------------------------------------------------------------
InPercentRange(progress) ==
    /\ progress.den > 0
    /\ 0 <= progress.num
    /\ progress.num <= 100 * progress.den

C21_ProgressWithinRange == InPercentRange(state.progress)

\* an export has published the progress of a leaf that is not its last one
C21_Witness ==
    /\ state.status = "exporting"
    /\ state.message.text = "slicing"
    /\ 0 < state.progress.num
    /\ state.progress.num < 100 * state.progress.den
    /\ processedCount < totalLayers

\* ------------------------------------------------------------------------
\* C22: every export that enters status 'exporting' eventually leaves it, when
\* the encode callbacks, the yield timers and the serialization eventually
\* complete or fail: on success, on a per-leaf failure and on a serialization
\* failure alike exportAssets returns and the status is 'ready' or 'idle', and
\* it never remains 'exporting' forever.
\* ------------------------------------------------------------------------
\* the nodes of the walked tree that the walk has not reached yet
Unvisited == Len(Nodes(exLayers)) - Len(visited)

\* what is left to do at the current node
PcRank ==
    CASE exPc = "toBlob" -> 3
      [] exPc = "encoding" -> 2
      [] exPc = "yield" -> 1
      [] OTHER -> 0

\* a measure of the work a running export has left: 0 when none runs
Rank ==
    IF exPc = "idle" THEN 0
    ELSE 1 + Len(exStack) + PcRank + 5 * Unvisited

\* a running export can always take a step, its measure is a natural number,
\* and an export that has returned has left status 'exporting'
C22_CanStep ==
    /\ Unvisited >= 0
    /\ exPc \in {"idle", "loop", "toBlob", "encoding", "yield", "generate"}
    /\ exPc = "loop" =>
          /\ exStack # <<>>
          /\ Top.i <= Len(Top.list) => Current.type \in {"group", "layer"}
    /\ exPc = "idle" => state.status \in {"idle", "ready", "parsing"}
    /\ state.status = "exporting" => exPc # "idle"

\* every step of a running export lowers the measure; no other step changes it
C22_Decreases ==
    exPc # "idle" => IF ExportStep THEN Rank' < Rank ELSE Rank' = Rank

\* Under the fairness of SpecLive these give: exporting ~> returned, with
\* status 'ready' or 'idle' when the export returns.
C22_ExportingIsLeft ==
    /\ []C22_CanStep
    /\ [][C22_Decreases]_vars
    /\ [][exPc # "idle" /\ exPc' = "idle" => state'.status \in {"ready", "idle"}]_vars

\* an export has ended on a failure at a leaf, and one on a failed serialization
C22_Witness ==
    /\ exPc = "idle"
    /\ outcome \in {"walk failed", "finalize failed"}
    /\ published # <<>>
    /\ state.status = "ready"

\* ------------------------------------------------------------------------
\* C23: in every state in which an export can be triggered, stats.selected,
\* the total the export uses, is the number of nodes of the tree that have type
\* 'layer' and isSelected true; so the total of an export is the number of
\* selected leaves of the tree it walks, and an export aborts as
\* nothing-selected exactly when that tree has no selected leaf.
\* ------------------------------------------------------------------------
C23_TotalIsSelectedLeafCount ==
    /\ ExportButtonEnabled => stats.selected = Cardinality(SelectedLeaves(layers))
    /\ exLayers # <<>> =>
          /\ totalLayers = Cardinality(SelectedLeaves(exLayers))
          /\ outcome = "nothing selected" <=> SelectedLeaves(exLayers) = {}

\* an export runs on a tree in which a group has been selected and a leaf is
\* not: its total counts the selected leaves only
C23_Witness ==
    /\ exPc # "idle"
    /\ totalLayers >= 2
    /\ totalLayers = Cardinality(SelectedLeaves(exLayers))
    /\ \E g \in NodeSet(exLayers) : g.type = "group" /\ g.isSelected
    /\ \E n \in NodeSet(exLayers) : n.type = "layer" /\ ~n.isSelected

\* ------------------------------------------------------------------------
\* C24: an export only reads its inputs: no step of exportAssets, with the
\* calls of trimCanvas and imageDataToCanvas it makes, changes the layer tree
\* (shape, names, selection flags), the payload lookup table or a layer record
\* or pixel buffer in it; it changes the archive it builds and the
\* status/progress state only.
\* ------------------------------------------------------------------------
C24_ExportOnlyReads ==
    [][(ExportClick \/ ExportStep) =>
          UNCHANGED << layers, layerMap, stats, namingStyle, useFolderPrefix,
                       loadPc, olderPc, olderFile, loadFile >>]_vars

\* an export has trimmed and added a leaf and has returned, and the tree and
\* the table are those it started with
C24_Witness ==
    /\ outcome = "completed"
    /\ added # <<>>
    /\ layers = exLayers
    /\ \A n \in NodeSet(layers) : n.id \in DOMAIN layerMap

\* ------------------------------------------------------------------------
\* C25: the ceiling of the trim scan is strictly larger than the pixel ceiling
\* of the materializer, so every surface that imageDataToCanvas allocates from
\* a raw pixel buffer is scanned by trimCanvas, none takes the size bypass.
\* ------------------------------------------------------------------------
MaterializedFromBuffer ==
    /\ fnCall = "trimCanvas"
    /\ fnFirst = Null
    /\ fnArg.kind = "layer"
    /\ fnArg.canvas = Null
    /\ fnArg.canvasData # Null
    /\ fnArg.width > 0 /\ fnArg.height > 0
    /\ ~exceedsPixelLimit(fnArg)
    /\ FaultCount(fnEnv) = 0

C25_MaterializedSurfaceIsScanned ==
    MaterializedFromBuffer =>
        /\ fnRet.scanned
        /\ fnRet.path # "bypass"

\* ------------------------------------------------------------------------
\* C26: after any sequence of load, toggleSelect and reset every node of the
\* tree has a children list if and only if its type is 'group'; and an export
\* adds a file only for nodes of type 'layer', never for a group, also when
\* the group's isSelected is true.
\* ------------------------------------------------------------------------
ChildrenIffGroup(list) ==
    \A n \in NodeSet(list) :
        /\ n.hasChildren <=> n.type = "group"
        /\ n.type \in {"group", "layer"}
        /\ ~n.hasChildren => n.children = <<>>

C26_OnlyGroupsHaveChildrenOnlyLeavesExport ==
    /\ ChildrenIffGroup(layers)
    /\ ChildrenIffGroup(exLayers)
    /\ \A k \in 1..Len(added) : NodeById(exLayers, added[k].leaf).type = "layer"
    /\ \A f \in FilesOf(exZip) : NodeById(exLayers, exZip[f].data.leaf).type = "layer"

\* an export has walked a tree in which a toggle selected a group, and has
\* added files
C26_Witness ==
    /\ outcome = "completed"
    /\ added # <<>>
    /\ \E k \in 1..Len(visited) :
          /\ NodeById(exLayers, visited[k]).type = "group"
          /\ NodeById(exLayers, visited[k]).isSelected
          /\ NodeById(exLayers, visited[k]).children # <<>>

\* ------------------------------------------------------------------------
\* C27: toggleSelect(id) sets isSelected of the node with that id and of every
\* one of its descendants to the negation of that node's previous isSelected,
\* and leaves unchanged the isSelected of every other node, ancestors
\* included, and the id, name, type, geometry and child order of all nodes.
\* ------------------------------------------------------------------------
IsBelowOrAt(list, m, id) ==
    \/ m = id
    \/ \E j \in 1..Len(AncestorsOf(list, m)) : AncestorsOf(list, m)[j].id = id

\* new is old with the node id and its descendants set to the negation of
\* the flag of id, and nothing else changed (nodes compared in document order)
ToggleEffect(old, new, id) ==
    LET a == Nodes(old)
        b == Nodes(new)
        flag == ~NodeById(old, id).isSelected
    IN /\ Len(new) = Len(old)
       /\ Len(b) = Len(a)
       /\ \A k \in 1..Len(a) :
             /\ b[k].id = a[k].id
             /\ b[k].name = a[k].name
             /\ b[k].type = a[k].type
             /\ b[k].visible = a[k].visible
             /\ b[k].width = a[k].width
             /\ b[k].height = a[k].height
             /\ b[k].hasChildren = a[k].hasChildren
             /\ Len(b[k].children) = Len(a[k].children)
             /\ b[k].isSelected = IF IsBelowOrAt(old, a[k].id, id) THEN flag
                                  ELSE a[k].isSelected

C27_ToggleSetsSubtreeOnly ==
    /\ [](\A n \in NodeSet(layers) : ToggleEffect(layers, update(layers, n.id), n.id))
    /\ [][ToggleSelect => \E n \in NodeSet(layers) : ToggleEffect(layers, layers', n.id)]_vars

\* a toggle has selected a group with a hidden leaf, and a later one has
\* deselected a group two levels above a leaf
C27_Witness ==
    \/ \E g \in NodeSet(layers) :
          /\ g.type = "group" /\ g.isSelected
          /\ \E c \in NodeSet(g.children) : ~c.visible /\ c.isSelected
          /\ \E m \in NodeSet(layers) : m.type = "layer" /\ ~IsBelowOrAt(layers, m.id, g.id)
                                        /\ m.isSelected = m.visible
    \/ \E g \in NodeSet(layers) :
          /\ g.type = "group" /\ ~g.isSelected
          /\ \E c \in NodeSet(g.children) :
                c.type = "layer" /\ c.visible /\ ~c.isSelected
                  /\ Len(AncestorsOf(layers, c.id)) = 2

\* ------------------------------------------------------------------------
\* C28: whenever no load is in progress the keys of the payload lookup table
\* are the ids of the nodes of the current tree: every node shown has an entry
\* and no entry of a closed document remains; and after reset the tree and
\* the table are empty and the status is 'idle' with progress 0.
\* ------------------------------------------------------------------------
NoLoadInProgress == loadPc = "idle" /\ olderPc = "idle"

C28_TableKeysAreTreeIds ==
    NoLoadInProgress => DOMAIN layerMap = {n.id : n \in NodeSet(layers)}

\* ------------------------------------------------------------------------
\* C29: within one export, from its start until it resolves, the progress
\* values it publishes never decrease: not between the leaves, not at the
\* packing step and not at the final 100%.
\* ------------------------------------------------------------------------
ProgressLeq(a, b) == a.num * b.den <= b.num * a.den

\* a step of the running export that publishes a state, the value before it
\* being one that this export published
ExportPublishes ==
    /\ exPc # "idle"
    /\ ExportStep
    /\ state.status = "exporting"
    /\ state' # state

C29_ProgressNeverMovesBack ==
    [][ExportPublishes => ProgressLeq(state.progress, state'.progress)]_vars

\* ------------------------------------------------------------------------
\* C30: no archive entry is overwritten during an export: two different
\* selected leaves whose trim and encoding succeed are written to two
\* different archive paths, so the finalized archive has as many files as
\* leaves were encoded, for every tree, naming style and prefix setting.
\* ------------------------------------------------------------------------
C30_NoEntryIsOverwritten ==
    /\ \A i, j \in 1..Len(added) :
          added[i].leaf # added[j].leaf => added[i].path # added[j].path
    /\ Cardinality(FilesOf(exZip)) = Len(added)
    /\ download # Null => Cardinality(FilesOf(download.files)) = Len(added)

====
